---- MODULE Spec2Model ----
(***************************************************************************)
(* CosmoScan: the catalog filter engine of CosmoScanApp.tsx.               *)
(*                                                                         *)
(* A JavaScript string is modelled as the sequence of its characters, so   *)
(* that toLowerCase, trim and includes are computed character by           *)
(* character.  A number that results from a division (averageRating) is    *)
(* the exact fraction [num, den] with den > 0; for the small integer       *)
(* ratings of the catalogs the IEEE-754 quotient orders exactly as the     *)
(* fraction does.  For ratings that are no integers averageRating is       *)
(* computed in binary64, bit by bit (averageRatingDouble).                 *)
(***************************************************************************)
EXTENDS Integers, Sequences, FiniteSets, TLC

VARIABLES
  products,        \* const [products] = useState(() => MOCK_PRODUCTS)
  query,           \* the raw query of the search input
  category,        \* the selected category
  minRating,       \* the minimum rating threshold
  focusId,         \* id of the selected product, or NULL
  debouncedQuery,  \* the applied query
  timers,          \* the runtime's table of pending timeouts: handle -> [value, remaining]
  nextHandle,      \* the handle the next setTimeout returns
  effectTimer,     \* the handle t held by the cleanup of the last debounce effect
  sinceChange,     \* history: ms since the raw query last changed (or since mount), capped
  cleared,         \* history: handles that clearTimeout cancelled before their callback ran
  fired,           \* history: handles whose callback has run
  argReviews,      \* the reviews that a call of averageRating is given
  average          \* what that call returned, or NULL before it returns

vars == << products, query, category, minRating, focusId, debouncedQuery, timers,
           nextHandle, effectTimer, sinceChange, cleared, fired, argReviews, average >>

\* null is the empty sequence and a value x that may be null is << x >>
NULL == << >>
Some(x) == << x >>

\* ---------------------------------------------------------------- bounds
\* how many setTimeout calls a run makes (the mount effect's included)
MaxTimers == 4
\* the time one Tick lets pass, in ms
TickMs == 125
\* the longest catalog InitAny draws from the pool
MaxCatalog == 3
\* the longest review list InitRating draws
MaxReviews == 3

\* ------------------------------------------------------- program constants
\* setTimeout(..., 250)
DebounceMs == 250
\* the options of the "Nota minima" select: [0, 1, 2, 3, 4]
MaxMinRating == 4

\* ---------------------------------------------------------------- strings
UpperChars == << "A", "B", "C", "D", "E", "F", "G", "H", "I", "J", "K", "L", "M",
                 "N", "O", "P", "Q", "R", "S", "T", "U", "V", "W", "X", "Y", "Z" >>
LowerChars == << "a", "b", "c", "d", "e", "f", "g", "h", "i", "j", "k", "l", "m",
                 "n", "o", "p", "q", "r", "s", "t", "u", "v", "w", "x", "y", "z" >>

\* the lower-case form of one character (the model's alphabet is ASCII)
LowerOf == [c \in {UpperChars[i] : i \in 1..26} |->
              LowerChars[CHOOSE i \in 1..26 : UpperChars[i] = c]]

toLowerCaseChar(c) == IF c \in DOMAIN LowerOf THEN LowerOf[c] ELSE c

\* String.prototype.toLowerCase
toLowerCase(s) == [i \in 1..Len(s) |-> toLowerCaseChar(s[i])]

isWhiteSpace(c) == c \in {" ", "\t", "\n"}

RECURSIVE trimStart(_)
trimStart(s) ==
  IF s # << >> /\ isWhiteSpace(Head(s)) THEN trimStart(Tail(s)) ELSE s

RECURSIVE trimEnd(_)
trimEnd(s) ==
  IF s # << >> /\ isWhiteSpace(s[Len(s)]) THEN trimEnd(SubSeq(s, 1, Len(s) - 1)) ELSE s

\* String.prototype.trim
trim(s) == trimEnd(trimStart(s))

\* String.prototype.includes: q occurs in s at some position
includes(s, q) ==
  \E i \in 0..(Len(s) - Len(q)) : \A j \in 1..Len(q) : s[i + j] = q[j]

\* the object literals of MOCK_PRODUCTS, in source order
MOCK_OBJECTS ==
  <<
  [ id |-> "p1",
    name |-> <<"D", "e", "r", "m", "a", " ", "G", "l", "o", "w", " ", "H", "i", "d", "r", "a", "t", "a", "n", "t", "e", " ", "F", "a", "c", "i", "a", "l">>,
    brand |-> <<"C", "o", "s", "m", "o", "L", "a", "b">>,
    category |-> <<"h", "i", "d", "r", "a", "t", "a", "n", "t", "e">>,
    inci |-> <<
        [name |-> <<"A", "q", "u", "a">>],
        [name |-> <<"G", "l", "y", "c", "e", "r", "i", "n">>],
        [name |-> <<"S", "o", "d", "i", "u", "m", " ", "H", "y", "a", "l", "u", "r", "o", "n", "a", "t", "e", " ", "(", "H", "y", "a", "l", "u", "r", "o", "n", "i", "c", " ", "A", "c", "i", "d", ")">>],
        [name |-> <<"C", "a", "p", "r", "y", "l", "i", "c", "/", "C", "a", "p", "r", "i", "c", " ", "T", "r", "i", "g", "l", "y", "c", "e", "r", "i", "d", "e">>],
        [name |-> <<"P", "h", "e", "n", "o", "x", "y", "e", "t", "h", "a", "n", "o", "l">>],
        [name |-> <<"P", "a", "r", "f", "u", "m", " ", "(", "F", "r", "a", "g", "r", "a", "n", "c", "e", ")">>] >>,
    reviews |-> << [rating |-> 5], [rating |-> 4] >> ],
  [ id |-> "p2",
    name |-> <<"U", "V", " ", "D", "e", "f", "e", "n", "s", "e", " ", "P", "r", "o", " ", "S", "P", "F", " ", "5", "0">>,
    brand |-> <<"S", "o", "l", "a", "r", "i", "s">>,
    category |-> <<"p", "r", "o", "t", "e", "t", "o", "r", " ", "s", "o", "l", "a", "r">>,
    inci |-> <<
        [name |-> <<"A", "q", "u", "a">>],
        [name |-> <<"H", "o", "m", "o", "s", "a", "l", "a", "t", "e">>],
        [name |-> <<"O", "c", "t", "o", "c", "r", "y", "l", "e", "n", "e">>],
        [name |-> <<"B", "u", "t", "y", "l", " ", "M", "e", "t", "h", "o", "x", "y", "d", "i", "b", "e", "n", "z", "o", "y", "l", "m", "e", "t", "h", "a", "n", "e", " ", "(", "A", "v", "o", "b", "e", "n", "z", "o", "n", "e", ")">>],
        [name |-> <<"S", "i", "l", "i", "c", "a">>],
        [name |-> <<"P", "h", "e", "n", "o", "x", "y", "e", "t", "h", "a", "n", "o", "l">>] >>,
    reviews |-> << [rating |-> 4], [rating |-> 3] >> ],
  [ id |-> "p3",
    name |-> <<"C", "l", "e", "a", "n", " ", "F", "o", "a", "m", " ", "G", "e", "l">>,
    brand |-> <<"P", "u", "r", "e", "S", "k", "i", "n">>,
    category |-> <<"l", "i", "m", "p", "e", "z", "a">>,
    inci |-> <<
        [name |-> <<"A", "q", "u", "a">>],
        [name |-> <<"C", "o", "c", "a", "m", "i", "d", "o", "p", "r", "o", "p", "y", "l", " ", "B", "e", "t", "a", "i", "n", "e">>],
        [name |-> <<"S", "o", "d", "i", "u", "m", " ", "L", "a", "u", "r", "e", "t", "h", " ", "S", "u", "l", "f", "a", "t", "e">>],
        [name |-> <<"A", "l", "o", "e", " ", "B", "a", "r", "b", "a", "d", "e", "n", "s", "i", "s", " ", "L", "e", "a", "f", " ", "J", "u", "i", "c", "e">>],
        [name |-> <<"P", "a", "r", "f", "u", "m", " ", "(", "F", "r", "a", "g", "r", "a", "n", "c", "e", ")">>] >>,
    reviews |-> << [rating |-> 4], [rating |-> 2] >> ],
  [ id |-> "p4",
    name |-> <<"N", "i", "g", "h", "t", " ", "R", "e", "p", "a", "i", "r", " ", "S", "e", "r", "u", "m">>,
    brand |-> <<"R", "e", "v", "i", "v", "a">>,
    category |-> <<"a", "n", "t", "i", "-", "i", "d", "a", "d", "e">>,
    inci |-> <<
        [name |-> <<"A", "q", "u", "a">>],
        [name |-> <<"R", "e", "t", "i", "n", "o", "l">>],
        [name |-> <<"N", "i", "a", "c", "i", "n", "a", "m", "i", "d", "e">>],
        [name |-> <<"S", "q", "u", "a", "l", "a", "n", "e">>],
        [name |-> <<"P", "h", "e", "n", "o", "x", "y", "e", "t", "h", "a", "n", "o", "l">>] >>,
    reviews |-> << [rating |-> 5], [rating |-> 4] >> ],
  [ id |-> "p5",
    name |-> <<"H", "y", "d", "r", "a", " ", "C", "a", "l", "m", " ", "C", "r", "e", "m", "e">>,
    brand |-> <<"D", "e", "r", "m", "a", "s", "o", "f", "t">>,
    category |-> <<"h", "i", "d", "r", "a", "t", "a", "n", "t", "e">>,
    inci |-> <<
        [name |-> <<"A", "q", "u", "a">>],
        [name |-> <<"C", "e", "r", "a", "m", "i", "d", "e", " ", "N", "P">>],
        [name |-> <<"S", "h", "e", "a", " ", "B", "u", "t", "t", "e", "r", " ", "(", "B", "u", "t", "y", "r", "o", "s", "p", "e", "r", "m", "u", "m", " ", "P", "a", "r", "k", "i", "i", ")">>],
        [name |-> <<"A", "l", "l", "a", "n", "t", "o", "i", "n">>],
        [name |-> <<"M", "e", "t", "h", "y", "l", "p", "a", "r", "a", "b", "e", "n">>] >>,
    reviews |-> << [rating |-> 4], [rating |-> 5] >> ],
  [ id |-> "p6",
    name |-> <<"A", "H", "A", " ", "8", "%", " ", "P", "e", "e", "l", "i", "n", "g", " ", "S", "o", "l", "u", "t", "i", "o", "n">>,
    brand |-> <<"S", "k", "i", "n", "T", "u", "n", "e">>,
    category |-> <<"t", "r", "a", "t", "a", "m", "e", "n", "t", "o">>,
    inci |-> <<
        [name |-> <<"A", "q", "u", "a">>],
        [name |-> <<"G", "l", "y", "c", "o", "l", "i", "c", " ", "A", "c", "i", "d">>],
        [name |-> <<"P", "r", "o", "p", "y", "l", "e", "n", "e", " ", "G", "l", "y", "c", "o", "l">>],
        [name |-> <<"P", "a", "n", "t", "h", "e", "n", "o", "l">>],
        [name |-> <<"P", "h", "e", "n", "o", "x", "y", "e", "t", "h", "a", "n", "o", "l">>] >>,
    reviews |-> << [rating |-> 3], [rating |-> 4] >> ]
  >>

\* further product objects, from which InitAny draws its catalogs: categories that
\* differ in case only, a product without reviews, two products whose averages tie,
\* a product whose only rating is negative, a product whose average is no integer
POOL_OBJECTS ==
  <<
  [ id |-> "x1", name |-> <<"A", "b">>, brand |-> <<"c">>, category |-> <<"K">>,
    inci |-> << >>, reviews |-> << >> ],
  [ id |-> "x2", name |-> <<"b">>, brand |-> <<"a", " ", "b">>, category |-> <<"k">>,
    inci |-> << [name |-> <<"A", "B", "C">>] >>, reviews |-> << [rating |-> 4] >> ],
  [ id |-> "x3", name |-> <<"c">>, brand |-> <<"c">>, category |-> <<"a", "b">>,
    inci |-> << [name |-> <<"c">>] >>, reviews |-> << [rating |-> 5], [rating |-> 3] >> ],
  [ id |-> "x4", name |-> <<"B", "c">>, brand |-> <<"c">>, category |-> <<"k">>,
    inci |-> << >>, reviews |-> << [rating |-> 0 - 1] >> ],
  [ id |-> "x5", name |-> <<"d">>, brand |-> <<"c">>, category |-> <<"a", "b">>,
    inci |-> << >>, reviews |-> << [rating |-> 3], [rating |-> 2] >> ]
  >>

\* ------------------------------------------------------------ the catalog
\* The product objects are never written (no code assigns a field of a Product), so
\* they live in a constant heap and an array of products is a sequence of references.
Heap == MOCK_OBJECTS \o POOL_OBJECTS

obj(r) == Heap[r]

\* const MOCK_PRODUCTS: Product[] = [ ... ]
MOCK_PRODUCTS == [i \in 1..Len(MOCK_OBJECTS) |-> i]

\* category.toLowerCase() === "todas": the "all categories" option
Todas == << "t", "o", "d", "a", "s" >>

\* reviews.reduce((acc, r) => acc + r.rating, 0)
RECURSIVE reduceRatings(_, _, _)
reduceRatings(reviews, i, acc) ==
  IF i > Len(reviews) THEN acc ELSE reduceRatings(reviews, i + 1, acc + reviews[i].rating)

averageRating(reviews) ==
  IF Len(reviews) = 0
    THEN [num |-> 0, den |-> 1]
    ELSE [num |-> reduceRatings(reviews, 1, 0), den |-> Len(reviews)]

\* the sign of x - y for two quotients
minus(x, y) == x.num * y.den - y.num * x.den

\* x >= n for a quotient x and an integer n
atLeast(x, n) == x.num >= n * x.den

\* (a, b) => averageRating(b.reviews) - averageRating(a.reviews)
compareRating(a, b) ==
  minus(averageRating(obj(b).reviews), averageRating(obj(a).reviews))

\* x placed behind every element of the sorted list that does not compare after it
RECURSIVE insertStable(_, _)

\* a variant of insertStable: x goes before the elements it ties with
insertBeforeTies(sorted, x) ==
  IF sorted = << >> THEN << x >>
  ELSE IF compareRating(Head(sorted), x) >= 0
    THEN << x >> \o sorted
    ELSE << Head(sorted) >> \o insertStable(Tail(sorted), x)

insertStable(sorted, x) ==
  IF sorted = << >> THEN << x >>
  ELSE IF compareRating(Head(sorted), x) > 0
    THEN << x >> \o sorted
    ELSE << Head(sorted) >> \o insertStable(Tail(sorted), x)

RECURSIVE sortFrom(_, _, _)
sortFrom(list, i, acc) ==
  IF i > Len(list) THEN acc ELSE sortFrom(list, i + 1, insertStable(acc, list[i]))

\* Array.prototype.sort with compareRating: a stable sort (ECMAScript 2019)
sort(list) == sortFrom(list, 1, << >>)

\* a variant of matchesText: the ingredient names are not searched
matchesTextNoInci(p, q) ==
  \/ Len(q) = 0
  \/ includes(toLowerCase(obj(p).name), q)
  \/ includes(toLowerCase(obj(p).brand), q)
  \/ includes(toLowerCase(obj(p).category), q)

matchesText(p, q) ==
  \/ Len(q) = 0
  \/ includes(toLowerCase(obj(p).name), q)
  \/ includes(toLowerCase(obj(p).brand), q)
  \/ includes(toLowerCase(obj(p).category), q)
  \/ \E k \in 1..Len(obj(p).inci) : includes(toLowerCase(obj(p).inci[k].name), q)

\* a variant of matchesCat: the "todas" option is compared like any category
matchesCatNoSentinel(p, cat) == toLowerCase(obj(p).category) = cat

\* a variant of matchesCat: the category is not filtered on
matchesCatAlways(p, cat) == TRUE

matchesCat(p, cat) == cat = Todas \/ toLowerCase(obj(p).category) = cat

\* a variant of matchesRating: a strict comparison
matchesRatingStrict(p, min) ==
  minus(averageRating(obj(p).reviews), [num |-> min, den |-> 1]) > 0

matchesRating(p, min) == atLeast(averageRating(obj(p).reviews), min)

\* the useMemo of filtered: products.filter(...) and then list.sort(...)
filteredMemo(ps, dq, c, min) ==
  LET q    == toLowerCase(trim(dq))
      cat  == toLowerCase(c)
      list == SelectSeq(ps, LAMBDA p : matchesText(p, q) /\ matchesCat(p, cat)
                                         /\ matchesRating(p, min))
  IN  sort(list)

\* a variant of productsAfterRender: the sort is applied to the products array itself
productsSortedInPlace(ps) == sort(ps)

\* what the render leaves in the products array: filter() returns a new array, so
\* list.sort() reorders the copy and not the catalog
productsAfterRender(ps) == ps

\* new Set(products.map((p) => p.category)) in insertion order
RECURSIVE distinctCategories(_, _, _)
distinctCategories(ps, i, acc) ==
  IF i > Len(ps) THEN acc
  ELSE IF \E k \in 1..Len(acc) : acc[k] = obj(ps[i]).category
    THEN distinctCategories(ps, i + 1, acc)
    ELSE distinctCategories(ps, i + 1, Append(acc, obj(ps[i]).category))

\* the useMemo of categories
categories == << Todas >> \o distinctCategories(products, 1, << >>)

\* a variant of focusedProductMemo: the first product stands in for a missing one
focusedProductOrFirst(ps, id) ==
  IF \E i \in 1..Len(ps) : Some(obj(ps[i]).id) = id
    THEN Some(ps[CHOOSE i \in 1..Len(ps) : Some(obj(ps[i]).id) = id])
    ELSE IF ps = << >> THEN NULL ELSE Some(ps[1])

\* a variant of focusedProductMemo: the product is looked up in the filtered list
focusedProductInList(ps, id) ==
  LET list == filteredMemo(ps, debouncedQuery, category, minRating)
  IN  IF \E i \in 1..Len(list) : Some(obj(list[i]).id) = id
        THEN Some(list[CHOOSE i \in 1..Len(list) : Some(obj(list[i]).id) = id])
        ELSE NULL

\* products.find((p) => p.id === focusId) ?? null
focusedProductMemo(ps, id) ==
  IF \E i \in 1..Len(ps) : Some(obj(ps[i]).id) = id
    THEN Some(ps[CHOOSE i \in 1..Len(ps) :
                   /\ Some(obj(ps[i]).id) = id
                   /\ \A k \in 1..(i - 1) : Some(obj(ps[k]).id) # id])
    ELSE NULL

\* ------------------------------------------------------------ the inputs
\* the text the user types into the search input, a character at a time
Typed == << "a", "b", "c" >>

\* the values of the search input while typing: the prefixes of Typed
QueryInputs == { SubSeq(Typed, 1, n) : n \in 0..Len(Typed) }

\* one keystroke turns the input's value u into v: a character typed at the end, or
\* the last character deleted
Keystroke(u, v) ==
  \/ Len(v) = Len(u) + 1 /\ SubSeq(v, 1, Len(u)) = u
  \/ Len(u) = Len(v) + 1 /\ SubSeq(u, 1, Len(v)) = v

\* the options of the minimum rating select
RatingOptions == 0..MaxMinRating

\* ------------------------------------------------------------- the state
\* the values the render of the current state computes, each a useMemo over state
filtered == filteredMemo(products, debouncedQuery, category, minRating)

focusedProduct == focusedProductMemo(products, focusId)

\* the re-render that follows every state change
Render == products' = productsAfterRender(products)

Mounted(ps) ==
  /\ products = ps
  /\ query = << >>
  /\ category = Todas
  /\ minRating = 0
  /\ focusId = NULL
  /\ debouncedQuery = << >>
  /\ timers = (1 :> [value |-> << >>, remaining |-> DebounceMs])
  /\ nextHandle = 2
  /\ effectTimer = 1
  /\ sinceChange = 0
  /\ cleared = {}
  /\ fired = {}

\* averageRating is not being called
NoCall == argReviews = << >> /\ average = NULL

Init == Mounted(MOCK_PRODUCTS) /\ NoCall

\* a variant of clearTimeout: the timeout stays pending
clearTimeoutIgnored(tab, t) == tab

\* clearTimeout(t): a pending timeout is dropped, any other handle is ignored
clearTimeout(tab, t) == [h \in DOMAIN tab \ {t} |-> tab[h]]

\* a variant of setTimeout: the delay is left out
setTimeoutNoDelay(tab, h, v) ==
  [k \in DOMAIN tab \cup {h} |->
     IF k = h THEN [value |-> v, remaining |-> 0] ELSE tab[k]]

\* setTimeout(() => setDebouncedQuery(v), DebounceMs), returning handle h
setTimeout(tab, h, v) ==
  [k \in DOMAIN tab \cup {h} |->
     IF k = h THEN [value |-> v, remaining |-> DebounceMs] ELSE tab[k]]

\* a variant of SetQuery: the effect does not depend on query and runs on mount only
SetQueryNoEffect(v) ==
  /\ Keystroke(query, v)
  /\ nextHandle <= MaxTimers
  /\ query' = v
  /\ UNCHANGED << category, minRating, focusId, debouncedQuery, timers, nextHandle,
                  effectTimer, sinceChange, cleared, fired,
                  argReviews, average >>
  /\ products' = products

\* onQueryChange(v): setQuery(v); the effect's cleanup, then the effect
SetQuery(v) ==
  /\ Keystroke(query, v)
  /\ nextHandle <= MaxTimers
  /\ query' = v
  /\ timers' = setTimeout(clearTimeout(timers, effectTimer), nextHandle, v)
  /\ cleared' = cleared \cup ({effectTimer} \cap DOMAIN timers)
  /\ effectTimer' = nextHandle
  /\ nextHandle' = nextHandle + 1
  /\ sinceChange' = 0
  /\ UNCHANGED << category, minRating, focusId, debouncedQuery, fired, argReviews,
                  average >>
  /\ Render

\* the callback of timeout h runs: setDebouncedQuery(value)
TimerFire(h) ==
  /\ h \in DOMAIN timers
  /\ timers[h].remaining = 0
  /\ debouncedQuery' = timers[h].value
  /\ timers' = [k \in DOMAIN timers \ {h} |-> timers[k]]
  /\ fired' = fired \cup {h}
  /\ UNCHANGED << query, category, minRating, focusId, nextHandle, effectTimer,
                  sinceChange, cleared, argReviews, average >>
  /\ Render

\* TickMs pass
Tick ==
  /\ \/ sinceChange < DebounceMs
     \/ \E h \in DOMAIN timers : timers[h].remaining > 0
  /\ timers' = [h \in DOMAIN timers |->
                  [timers[h] EXCEPT !.remaining =
                     IF @ > TickMs THEN @ - TickMs ELSE 0]]
  /\ sinceChange' = IF sinceChange + TickMs < DebounceMs
                      THEN sinceChange + TickMs ELSE DebounceMs
  /\ UNCHANGED << query, category, minRating, focusId, debouncedQuery, nextHandle,
                  effectTimer, cleared, fired,
                  argReviews, average >>
  /\ Render

\* a variant of SetCategory: the debounce effect depends on category too and runs anew
SetCategoryRestartsDebounce(c) ==
  /\ c # category
  /\ nextHandle <= MaxTimers
  /\ category' = c
  /\ timers' = setTimeout(clearTimeout(timers, effectTimer), nextHandle, query)
  /\ cleared' = cleared \cup ({effectTimer} \cap DOMAIN timers)
  /\ effectTimer' = nextHandle
  /\ nextHandle' = nextHandle + 1
  /\ UNCHANGED << query, minRating, focusId, debouncedQuery, sinceChange, fired,
                  argReviews, average >>
  /\ Render

\* onCategoryChange(c), c an option of the category select
SetCategory(c) ==
  /\ c # category
  /\ category' = c
  /\ UNCHANGED << query, minRating, focusId, debouncedQuery, timers, nextHandle,
                  effectTimer, sinceChange, cleared, fired,
                  argReviews, average >>
  /\ Render

\* onMinRatingChange(n), n an option of the rating select
SetMinRating(n) ==
  /\ n # minRating
  /\ minRating' = n
  /\ UNCHANGED << query, category, focusId, debouncedQuery, timers, nextHandle,
                  effectTimer, sinceChange, cleared, fired,
                  argReviews, average >>
  /\ Render

\* the onClick of the card of product p of the filtered list: setFocusId(p.id)
SelectProduct(p) ==
  /\ focusId' = Some(obj(p).id)
  /\ UNCHANGED << query, category, minRating, debouncedQuery, timers, nextHandle,
                  effectTimer, sinceChange, cleared, fired,
                  argReviews, average >>
  /\ Render

\* closeModal, the onClose of the modal that is rendered for a focused product
CloseModal ==
  /\ focusedProduct # NULL
  /\ focusId' = NULL
  /\ UNCHANGED << query, category, minRating, debouncedQuery, timers, nextHandle,
                  effectTimer, sinceChange, cleared, fired,
                  argReviews, average >>
  /\ Render

Next ==
  \/ \E v \in QueryInputs : SetQuery(v)
  \/ \E h \in DOMAIN timers : TimerFire(h)
  \/ Tick
  \/ \E options \in {categories} : \E i \in 1..Len(options) : SetCategory(options[i])
  \/ \E n \in RatingOptions : SetMinRating(n)
  \/ \E list \in {filtered} : \E i \in 1..Len(list) : SelectProduct(list[i])
  \/ CloseModal

Spec == Init /\ [][Next]_vars

\* the event loop runs a due timeout and time passes
FairSpec == Spec /\ WF_vars(Tick) /\ WF_vars(\E h \in DOMAIN timers : TimerFire(h))

\* ------------------------------------------- the derivation on any catalog
\* the product objects InitAny draws from
PoolRefs == (Len(MOCK_OBJECTS) + 1)..Len(Heap)

\* the catalogs of at most MaxCatalog pool products, each product at most once
Catalogs ==
  UNION { { ps \in [1..n -> PoolRefs] : \A i, j \in 1..n : ps[i] = ps[j] => i = j }
          : n \in 0..MaxCatalog }

\* the applied queries InitAny draws from
AppliedInputs ==
  { << >>, << " ", " " >>, << "a", "b" >>, << " ", "A", "B", "C" >>, << "k" >> }

\* the state once the text dq, put into the search input, has been applied
Settled(ps, dq) ==
  /\ products = ps
  /\ query = dq
  /\ category = Todas
  /\ minRating = 0
  /\ focusId = NULL
  /\ debouncedQuery = dq
  /\ timers = << >>
  /\ nextHandle = 3
  /\ effectTimer = 2
  /\ sinceChange = DebounceMs
  /\ cleared = {}
  /\ fired = {1, 2}

InitAny == \E ps \in Catalogs : \E dq \in AppliedInputs : Settled(ps, dq) /\ NoCall

\* the operations that derive the list anew without a timer
NextAny ==
  \/ \E options \in {categories} : \E i \in 1..Len(options) : SetCategory(options[i])
  \/ \E n \in RatingOptions : SetMinRating(n)
  \/ \E list \in {filtered} : \E i \in 1..Len(list) : SelectProduct(list[i])
  \/ CloseModal

SpecAny == InitAny /\ [][NextAny]_vars


\* ------------------------------------------- averageRating on any number
\* rating is a number, and no code checks that it is an integer.  A finite number
\* >= 0 of JavaScript (an IEEE-754 binary64 in the normal range) is [m, e], of value
\* m * 2^e: m is a sequence of bits, the lowest first, that is empty (the number 0,
\* with e = 0) or begins and ends with a 1, and has at most MantissaBits bits.
MantissaBits == 53

zeros(n) == [i \in 1..n |-> 0]

\* the bits without the zeros at their low end, the exponent raised by their number
stripLow(bits, e) ==
  IF \A i \in 1..Len(bits) : bits[i] = 0 THEN [m |-> << >>, e |-> 0]
  ELSE LET low == CHOOSE i \in 1..Len(bits) :
                    bits[i] = 1 /\ \A j \in 1..(i - 1) : bits[j] = 0
       IN  [m |-> SubSeq(bits, low, Len(bits)), e |-> e + low - 1]

\* the bits without the zeros at their high end
stripHigh(bits) ==
  IF \A i \in 1..Len(bits) : bits[i] = 0 THEN << >>
  ELSE LET high == CHOOSE i \in 1..Len(bits) :
                     bits[i] = 1 /\ \A j \in (i + 1)..Len(bits) : bits[j] = 0
       IN  SubSeq(bits, 1, high)

bitAt(bits, i) == IF i <= Len(bits) THEN bits[i] ELSE 0

\* the carry out of bits lo..hi of a + b, as a function of the carry into bit lo
RECURSIVE carryOut(_, _, _, _)
carryOut(a, b, lo, hi) ==
  IF lo = hi THEN [carry \in 0..1 |-> (bitAt(a, lo) + bitAt(b, lo) + carry) \div 2]
  ELSE LET mid  == (lo + hi) \div 2
           low  == carryOut(a, b, lo, mid)
           high == carryOut(a, b, mid + 1, hi)
       IN  [carry \in 0..1 |-> high[low[carry]]]

\* bits lo..hi of a + b, as a function of the carry into bit lo
RECURSIVE sumBits(_, _, _, _)
sumBits(a, b, lo, hi) ==
  IF lo = hi THEN [carry \in 0..1 |-> << (bitAt(a, lo) + bitAt(b, lo) + carry) % 2 >>]
  ELSE LET mid  == (lo + hi) \div 2
           low  == sumBits(a, b, lo, mid)
           high == sumBits(a, b, mid + 1, hi)
           into == carryOut(a, b, lo, mid)
       IN  [carry \in 0..1 |-> low[carry] \o high[into[carry]]]

\* the exact sum of two naturals given by their bits
addBits(a, b) ==
  LET n == IF Len(a) > Len(b) THEN Len(a) ELSE Len(b)
  IN  stripHigh(sumBits(a, b, 1, n + 1)[0])

\* the binary64 nearest to bits * 2^e, a tie going to the even mantissa; the highest
\* of the bits is a 1
roundNearestEven(bits, e) ==
  IF Len(bits) <= MantissaBits THEN stripLow(bits, e)
  ELSE LET k    == Len(bits) - MantissaBits
           kept == SubSeq(bits, k + 1, Len(bits))
           up   == /\ bits[k] = 1
                   /\ \/ \E i \in 1..(k - 1) : bits[i] = 1
                      \/ kept[1] = 1
       IN  stripLow(IF up THEN addBits(kept, << 1 >>) ELSE kept, e + k)

\* x + y
addDouble(x, y) ==
  IF x.m = << >> THEN y
  ELSE IF y.m = << >> THEN x
  ELSE LET e == IF x.e < y.e THEN x.e ELSE y.e
       IN  roundNearestEven(addBits(zeros(x.e - e) \o x.m, zeros(y.e - e) \o y.m), e)

\* long division of a natural, given by its bits, by n: the remainder after bits
\* hi down to lo, as a function of the remainder before bit hi
RECURSIVE remOver(_, _, _, _)
remOver(bits, n, lo, hi) ==
  IF lo = hi THEN [r \in 0..(n - 1) |-> (2 * r + bits[lo]) % n]
  ELSE LET mid  == (lo + hi) \div 2
           low  == remOver(bits, n, lo, mid)
           high == remOver(bits, n, mid + 1, hi)
       IN  [r \in 0..(n - 1) |-> low[high[r]]]

\* and bits lo..hi of the quotient
RECURSIVE quotOver(_, _, _, _)
quotOver(bits, n, lo, hi) ==
  IF lo = hi THEN [r \in 0..(n - 1) |-> << (2 * r + bits[lo]) \div n >>]
  ELSE LET mid  == (lo + hi) \div 2
           low  == quotOver(bits, n, lo, mid)
           high == quotOver(bits, n, mid + 1, hi)
           into == remOver(bits, n, mid + 1, hi)
       IN  [r \in 0..(n - 1) |-> low[into[r]] \o high[r]]

\* x / n for an integer n > 0: the quotient to MantissaBits + 3 bits more than x has,
\* a bit below them standing for a remainder, rounded
divideDouble(x, n) ==
  IF x.m = << >> THEN x
  ELSE LET bits == zeros(MantissaBits + 3) \o x.m
           q    == stripHigh(quotOver(bits, n, 1, Len(bits))[0])
           e    == x.e - (MantissaBits + 3)
       IN  IF remOver(bits, n, 1, Len(bits))[0] = 0
             THEN roundNearestEven(q, e)
             ELSE roundNearestEven(<< 1 >> \o q, e - 1)

\* the number that an integer literal k >= 0 denotes
RECURSIVE bitsOf(_)
bitsOf(k) == IF k = 0 THEN << >> ELSE << k % 2 >> \o bitsOf(k \div 2)

fromInt(k) == stripLow(bitsOf(k), 0)

\* the number whose mantissa has the hexadecimal digits given, the highest first
RECURSIVE bitsOfHex(_)
bitsOfHex(digits) ==
  IF digits = << >> THEN << >>
  ELSE LET d == digits[Len(digits)]
       IN  << d % 2, (d \div 2) % 2, (d \div 4) % 2, d \div 8 >>
             \o bitsOfHex(SubSeq(digits, 1, Len(digits) - 1))

fromHex(digits, e) == stripLow(stripHigh(bitsOfHex(digits)), e)

\* reviews.reduce((acc, r) => acc + r.rating, 0)
RECURSIVE reduceRatingsDouble(_, _, _)
reduceRatingsDouble(reviews, i, acc) ==
  IF i > Len(reviews) THEN acc
  ELSE reduceRatingsDouble(reviews, i + 1, addDouble(acc, reviews[i].rating))

\* a variant of averageRatingDouble: the sum is divided by one more than the count
averageRatingSmoothed(reviews) ==
  divideDouble(reduceRatingsDouble(reviews, 1, fromInt(0)), Len(reviews) + 1)

\* averageRating, its arithmetic that of binary64
averageRatingDouble(reviews) ==
  IF Len(reviews) = 0
    THEN fromInt(0)
    ELSE divideDouble(reduceRatingsDouble(reviews, 1, fromInt(0)), Len(reviews))

\* the ratings InitRating draws from: 1, 4, 5 and the binary64 of 4.1, 4.2 and 4.3
RatingInputs ==
  { fromInt(1), fromInt(4), fromInt(5),
    fromHex(<< 1, 0, 6, 6, 6, 6, 6, 6, 6, 6, 6, 6, 6, 6 >>, 0 - 50),
    fromHex(<< 1, 0, 12, 12, 12, 12, 12, 12, 12, 12, 12, 12, 12, 13 >>, 0 - 50),
    fromHex(<< 1, 1, 3, 3, 3, 3, 3, 3, 3, 3, 3, 3, 3, 3 >>, 0 - 50) }

\* the review lists of at most MaxReviews reviews
ReviewLists ==
  UNION { [1..n -> { [rating |-> d] : d \in RatingInputs }] : n \in 0..MaxReviews }

InitRating ==
  /\ Mounted(MOCK_PRODUCTS)
  /\ argReviews \in ReviewLists
  /\ average = NULL

\* averageRating(argReviews) returns
CallAverageRating ==
  /\ average = NULL
  /\ average' = Some(averageRatingDouble(argReviews))
  /\ UNCHANGED << products, query, category, minRating, focusId, debouncedQuery, timers,
                  nextHandle, effectTimer, sinceChange, cleared, fired, argReviews >>

NextRating == CallAverageRating

SpecRating == InitRating /\ [][NextRating]_vars

\* ============================================================ properties
ToSet(s) == { s[i] : i \in 1..Len(s) }

\* ------------------------------------------------------------------- C1
\* C1: the applied query only ever takes a value that was the raw query and was not
\* followed by another query change within DebounceMs: a step that changes the
\* applied query sets it to the current raw query, which has then been unchanged
\* for DebounceMs; and once "a", "ab", "abc" have been typed from mount, each within
\* DebounceMs of the one before, the applied query is never "a" or "ab".
\* three keystrokes since mount, each cancelling the timer of the value before it, have
\* typed "abc": they were "a", "ab", "abc"
TypedInBurst == nextHandle = 5 /\ cleared = {1, 2, 3} /\ query = Typed

C1_AppliesOnlyQuietQuery ==
  [][ /\ debouncedQuery' # debouncedQuery =>
           debouncedQuery' = query /\ sinceChange >= DebounceMs
      /\ TypedInBurst' => debouncedQuery' \in { << >>, Typed } ]_vars

\* "a", "ab", "abc" were typed, each before the timer of the one before had run, and
\* the timer of "abc" has run
C1_Witness ==
  /\ TypedInBurst
  /\ fired = {4}
  /\ debouncedQuery = Typed

\* ------------------------------------------------------------------- C2
\* C2: at most one debounce timer is pending in every reachable state, and a timer
\* that clearTimeout has cancelled never runs its callback.
C2_OnePendingTimer ==
  /\ Cardinality(DOMAIN timers) <= 1
  /\ cleared \cap fired = {}
  /\ cleared \cap DOMAIN timers = {}

\* two timers were cancelled while pending, a later one has run, and one is pending
C2_Witness ==
  /\ Cardinality(cleared) >= 2
  /\ \E h \in fired : \A c \in cleared : h > c
  /\ Cardinality(DOMAIN timers) = 1

\* ------------------------------------------------------------------- C3
\* C3: under fair scheduling of timers, whenever the raw query stops changing, the
\* applied query eventually equals it and stays equal to it.
C3_EventuallyApplied ==
  \A v \in QueryInputs : <>[](query = v) => <>[](debouncedQuery = v)

\* a typed query has been applied by its timer and no timer is left
C3_Witness ==
  /\ query = << "a", "b" >>
  /\ debouncedQuery = query
  /\ DOMAIN timers = {}
  /\ effectTimer \in fired

\* ------------------------------------------- the predicates as the specification states them
\* q occurs in s as a run of consecutive characters
Occurs(q, s) == \E i \in 0..Len(s) : \E j \in 0..Len(s) : SubSeq(s, i + 1, j) = q

\* s with every upper-case letter replaced by its lower-case letter
Lowered(s) ==
  [i \in 1..Len(s) |->
     IF \E k \in 1..26 : UpperChars[k] = s[i]
       THEN LowerChars[CHOOSE k \in 1..26 : UpperChars[k] = s[i]]
       ELSE s[i]]

\* s from its first to its last character that is not white space
Trimmed(s) ==
  LET inked == { i \in 1..Len(s) : ~isWhiteSpace(s[i]) }
  IN  IF inked = {} THEN << >>
      ELSE SubSeq(s, CHOOSE i \in inked : \A k \in inked : i <= k,
                     CHOOSE i \in inked : \A k \in inked : i >= k)

\* the sum of the ratings of the first n reviews
RECURSIVE RatingTotal(_, _)
RatingTotal(reviews, n) ==
  IF n = 0 THEN 0 ELSE RatingTotal(reviews, n - 1) + reviews[n].rating

\* mean of r's ratings >= mean of s's ratings, a product without reviews having mean 0
MeanAtLeast(r, s) ==
  LET rn == Len(obj(r).reviews)
      sn == Len(obj(s).reviews)
      rt == RatingTotal(obj(r).reviews, rn)
      st == RatingTotal(obj(s).reviews, sn)
  IN  rt * (IF sn = 0 THEN 1 ELSE sn) >= st * (IF rn = 0 THEN 1 ELSE rn)

TextHolds(r) ==
  LET q == Lowered(Trimmed(debouncedQuery))
  IN  \/ q = << >>
      \/ Occurs(q, Lowered(obj(r).name))
      \/ Occurs(q, Lowered(obj(r).brand))
      \/ Occurs(q, Lowered(obj(r).category))
      \/ \E k \in 1..Len(obj(r).inci) : Occurs(q, Lowered(obj(r).inci[k].name))

CategoryHolds(r) ==
  category = Todas \/ Lowered(category) = Lowered(obj(r).category)

RatingHolds(r) ==
  LET n == Len(obj(r).reviews)
  IN  IF n = 0 THEN 0 >= minRating ELSE RatingTotal(obj(r).reviews, n) >= minRating * n

\* the place of product r in the catalog
PlaceOf(r) == CHOOSE i \in 1..Len(products) : products[i] = r

\* ------------------------------------------------------------------- C4
\* C4: in every reachable state the filtered list holds exactly the catalog products
\* for which the text, the category and the rating predicate hold under the applied
\* query, the selected category and the minimum rating, each of them once.
C4_FilteredExactly ==
  \A list \in {filtered} :
    /\ \A r \in ToSet(products) :
         r \in ToSet(list) <=> TextHolds(r) /\ CategoryHolds(r) /\ RatingHolds(r)
    /\ ToSet(list) \subseteq ToSet(products)
    /\ \A i, j \in 1..Len(list) : list[i] = list[j] => i = j

\* a query, a category and a rating are set, a product passes, and each predicate
\* fails for some product
C4_Witness ==
  /\ Trimmed(debouncedQuery) # << >>
  /\ category # Todas
  /\ minRating >= 1
  /\ filtered # << >>
  /\ \E r \in ToSet(products) : ~TextHolds(r)
  /\ \E r \in ToSet(products) : ~CategoryHolds(r)
  /\ \E r \in ToSet(products) : ~RatingHolds(r)

\* ------------------------------------------------------------------- C5
\* C5: the filtered list is sorted non-increasing by average rating, and two of its
\* products with equal average rating are in the order they have in the catalog.
C5_SortedStable ==
  \A list \in {filtered} :
    \A i, j \in 1..Len(list) :
      i < j =>
        /\ MeanAtLeast(list[i], list[j])
        /\ MeanAtLeast(list[j], list[i]) => PlaceOf(list[i]) < PlaceOf(list[j])

\* a minimum rating is set and three products pass it; the sort has moved one of them,
\* and two of them tie and are apart in the catalog
C5_Witness ==
  \E list \in {filtered} :
    /\ minRating >= 1
    /\ Len(list) >= 3
    /\ list # products
    /\ \E i, j \in 1..Len(list) :
         /\ i < j
         /\ MeanAtLeast(list[j], list[i])
         /\ PlaceOf(list[j]) - PlaceOf(list[i]) >= 2

\* ------------------------------------------------------------------- C6
\* the products that pass the text and the rating predicate
PassTextAndRating == { r \in ToSet(products) : TextHolds(r) /\ RatingHolds(r) }

\* the label the specification gives the "all categories" option
AllLabel == << "a", "l", "l" >>

PassTextAndCategory == { r \in ToSet(products) : TextHolds(r) /\ CategoryHolds(r) }

NoNegativeRating(r) == \A k \in 1..Len(obj(r).reviews) : obj(r).reviews[k].rating >= 0

ProbeIds == { Heap[r].id : r \in DOMAIN Heap } \cup { "p0" }

\* C8: resolving an id against the catalog yields the product with that id when there
\* is one and null otherwise; the focused product is null when no id is set, and is
\* otherwise a product of the catalog with the focused id.
C8_FocusResolves ==
  /\ focusId = NULL => focusedProduct = NULL
  /\ \A id \in ProbeIds :
       \A found \in {focusedProductMemo(products, Some(id))} :
         IF \E r \in ToSet(products) : obj(r).id = id
           THEN \E r \in ToSet(products) : found = Some(r) /\ obj(r).id = id
           ELSE found = NULL
  /\ \/ focusedProduct = NULL
     \/ \E r \in ToSet(products) : focusedProduct = Some(r) /\ Some(obj(r).id) = focusId

\* a product was selected and is resolved, and an id of no catalog product
\* resolves to null, as does no id
C8_Witness ==
  /\ focusId = Some("p5")
  /\ focusedProduct = Some(5)
  /\ focusedProductMemo(products, Some("x1")) = NULL
  /\ focusedProductMemo(products, NULL) = NULL

Hidratante == MOCK_OBJECTS[1].category

\* the ids of the filtered list, in its order
filteredIds == [i \in 1..Len(filtered) |-> obj(filtered[i]).id]

\* C10: on the seed catalog, with an empty applied query, category "hidratante" and
\* minimum rating 4, the filtered list is p1, p5, in this order.
C10_HidratanteFromFour ==
  (debouncedQuery = << >> /\ category = Hidratante /\ minRating = MaxMinRating) =>
    filteredIds = << "p1", "p5" >>

\* the state of the scenario, both products averaging 4.5
C10_Witness ==
  /\ debouncedQuery = << >>
  /\ category = Hidratante
  /\ minRating = MaxMinRating
  /\ filteredIds = << "p1", "p5" >>
  /\ MeanAtLeast(1, 5) /\ MeanAtLeast(5, 1)

\* ------------------------------------------------------------------ C11
\* the rating d is an integer
IsInteger(d) == d.e >= 0

RECURSIVE BitsValue(_, _)
BitsValue(bits, i) == IF i > Len(bits) THEN 0 ELSE bits[i] * 2^(i - 1) + BitsValue(bits, i + 1)

\* the integer that d is
IntOf(d) == BitsValue(d.m, 1) * 2^(d.e)

IntegerRatings == \A i \in 1..Len(argReviews) : IsInteger(argReviews[i].rating)

\* the reviews of the call, their integer ratings as integers
IntReviews == [i \in 1..Len(argReviews) |-> [rating |-> IntOf(argReviews[i].rating)]]

\* reviews i and i + 1 of the list in each other's place
Swapped(list, i) ==
  [k \in 1..Len(list) |-> IF k = i THEN list[i + 1] ELSE IF k = i + 1 THEN list[i] ELSE list[k]]

\* exchanging two neighbours leaves the average as returned; over all lists this is
\* every reordering
SameInAnyOrder ==
  \A i \in 1..(Len(argReviews) - 1) :
    Some(averageRatingDouble(Swapped(argReviews, i))) = average

\* the binary64 nearest to the quotient of the integers t and n
NearestQuotient(t, n) ==
  IF t % n = 0 THEN fromInt(t \div n) ELSE divideDouble(fromInt(t), n)

\* C11 as stated: averageRating does not depend on the order of the reviews
C11_OrderIndependent == average # NULL => SameInAnyOrder

\* C11, amended: what averageRating returns is 0 for no reviews and else the sum of
\* the ratings divided by their count (for integer ratings the exact total, which is
\* also the fraction that averageRating yields), and for integer ratings it is the
\* same in any order of the reviews
C11_MeanOfIntegerRatings ==
  average # NULL =>
    /\ Len(argReviews) = 0 => average = Some(fromInt(0))
    /\ IntegerRatings /\ Len(argReviews) > 0 =>
         LET n == Len(argReviews)
             t == RatingTotal(IntReviews, n)
         IN  /\ average = Some(NearestQuotient(t, n))
             /\ minus(averageRating(IntReviews), [num |-> t, den |-> n]) = 0
             /\ SameInAnyOrder

\* averageRating has returned for three integer ratings that are not all the same
\* and whose mean is no integer
C11_Witness ==
  /\ average # NULL
  /\ IntegerRatings
  /\ Len(argReviews) = 3
  /\ argReviews[1] # argReviews[2]
  /\ RatingTotal(IntReviews, 3) % 3 # 0

\* ------------------------------------------------------------------ C12
\* the timeout of the last debounce effect is pending for the raw query and is due
\* DebounceMs after the query last changed
PendingForQuery ==
  /\ effectTimer \in DOMAIN timers
  /\ timers[effectTimer].value = query
  /\ timers[effectTimer].remaining = DebounceMs - sinceChange

\* the text q is a part of the text s
PartOf(q, s) == \E i \in 1..(Len(s) - Len(q) + 1) : SubSeq(s, i, i + Len(q) - 1) = q

\* the text q occurs in a searched field of product r
Mentions(r, q) ==
  \/ PartOf(q, Lowered(obj(r).name))
  \/ PartOf(q, Lowered(obj(r).brand))
  \/ PartOf(q, Lowered(obj(r).category))
  \/ \E k \in 1..Len(obj(r).inci) : PartOf(q, Lowered(obj(r).inci[k].name))

\* the list is the one of the category and the minimum rating that are selected and of
\* the query that is applied
ListedAsSelected ==
  \A list \in {filtered} :
    \A q \in {Lowered(Trimmed(debouncedQuery))} :
      \A r \in ToSet(products) :
        r \in ToSet(list) <=>
          (q = << >> \/ Mentions(r, q)) /\ CategoryHolds(r) /\ RatingHolds(r)

\* C12: the filtered list is the one of the selected category, the selected minimum
\* rating and the applied query, so a change of category or rating shows in the list
\* of the state it leads to (the list does not read the focused id, and is compared in
\* the states without one); and a step that changes the category or the minimum
\* rating leaves the applied query, the raw query and the timeouts (pending, cleared,
\* fired, their remaining time) as they are, a query that waits to be applied still
\* being due DebounceMs after it was last changed.
C12_FilterChangeLeavesDebounce ==
  /\ [](focusId = NULL => ListedAsSelected)
  /\ [][ (category' # category \/ minRating' # minRating) =>
          /\ debouncedQuery' = debouncedQuery
          /\ query' = query
          /\ timers' = timers
          /\ effectTimer' = effectTimer
          /\ nextHandle' = nextHandle
          /\ cleared' = cleared
          /\ fired' = fired
          /\ sinceChange' = sinceChange
          /\ query # debouncedQuery => PendingForQuery'
      ]_vars

\* the edit "ab" of the query waits, part of its delay gone, and no timeout has fired;
\* a category and a minimum rating are selected, and the list is the one of the
\* query applied before, a product that "ab" does not occur in
C12_Witness ==
  /\ query = << "a", "b" >>
  /\ debouncedQuery = << >>
  /\ PendingForQuery
  /\ sinceChange = TickMs
  /\ fired = {}
  /\ category = MOCK_OBJECTS[6].category
  /\ minRating = 1
  /\ focusId = NULL
  /\ filtered = << 6 >>
  /\ ~Mentions(6, query)

\* ------------------------------------------------------------------ C13
\* the product of the catalog that has the focused id
CatalogProductOfFocus ==
  \E r \in ToSet(products) : Some(obj(r).id) = focusId /\ focusedProduct = Some(r)

\* C13: a step that changes the raw query, the category, the minimum rating, the
\* applied query or a timeout leaves the focused id as it is; a step that changes the
\* focused id changes nothing else and sets it to the id of a product of the filtered
\* list (its card is clicked) or to null while a product is shown (the modal is closed);
\* and in every state with a focused id the focused product is the catalog product
\* of that id, whether or not the filtered list holds it.
C13_FocusApartFromFilters ==
  /\ [](focusId # NULL => CatalogProductOfFocus)
  /\ [][ /\ ( \/ query' # query
              \/ category' # category
              \/ minRating' # minRating
              \/ debouncedQuery' # debouncedQuery
              \/ timers' # timers ) => focusId' = focusId
         /\ focusId' # focusId =>
              /\ UNCHANGED << products, query, category, minRating, debouncedQuery,
                              timers, nextHandle, effectTimer >>
              /\ \/ focusId' = NULL /\ focusedProduct # NULL
                 \/ \E list \in {filtered} :
                      \E i \in 1..Len(list) : focusId' = Some(obj(list[i]).id)
     ]_vars

\* p1 was selected and is shown, and the filters that were set since (an applied
\* query, a category, a minimum rating) keep it out of the filtered list
C13_Witness ==
  /\ focusId = Some("p1")
  /\ focusedProduct = Some(1)
  /\ debouncedQuery # << >>
  /\ category # Todas
  /\ minRating >= 1
  /\ \A i \in 1..Len(filtered) : filtered[i] # 1
====
